---- MODULE Spec2Model ----
(***************************************************************************)
(* Model of monitor-cellular.py: main(), CellularMonitor.monitor() and the *)
(* helpers it calls.  One action per statement group of the monitoring     *)
(* loop, so that a KeyboardInterrupt (raised asynchronously by the          *)
(* interpreter between any two statements, and out of any blocking call)   *)
(* can be delivered at every position the code can be in.                  *)
(*                                                                         *)
(* Time: datetime.now() is the naive local wall clock.  It is modelled by  *)
(* the variable now, counted in whole minutes; it moves forward while the  *)
(* program sits in a blocking call and may be set back by a clock          *)
(* adjustment (NTP step, DST change).  timedelta(minutes=d) is d ticks and *)
(* total_seconds() of a difference of t ticks is t * 60.                   *)
(***************************************************************************)
EXTENDS Integers, Sequences, FiniteSets, TLC

VARIABLES
    euid, host_is_ip, duration, interval,      \* process / command line
    now, adjusted,                             \* wall clock, adjustments made to it
    pc, exc, interrupted, stop, exit_status,   \* control position, pending exception
    constructed, diagnostics,                  \* CellularMonitor built, checks run
    start_time, end_time,
    ping_count, success_count, failure_count,
    downtime_start, downtime_duration, max_downtime, current_downtime,
    recent_pings, recent_failures,
    result, downtime, signal,                  \* locals of monitor()
    cycle_log, stats_log, final_log,           \* what has been printed
    history, episodes, opened                  \* observers: outcomes, closed episodes

config == <<euid, host_is_ip, duration, interval>>
clock  == <<now, adjusted>>
ctrl   == <<pc, exc, interrupted, stop, exit_status, constructed, diagnostics>>
times  == <<start_time, end_time>>
counts == <<ping_count, success_count, failure_count>>
down   == <<downtime_start, downtime_duration, max_downtime, current_downtime>>
bufs   == <<recent_pings, recent_failures>>
locals == <<result, downtime, signal>>
logs   == <<cycle_log, stats_log, final_log>>
obs    == <<history, episodes, opened>>
vars   == <<config, clock, ctrl, times, counts, down, bufs, locals, logs, obs>>

(***************************************************************************)
(* Bounds of the model.                                                    *)
(***************************************************************************)
MaxPings    == 5     \* cycles started in a run of Spec
MaxTime     == 3     \* last clock reading
MaxAdjust   == 1     \* backward clock adjustments in a run
MaxDuration == 1     \* largest --duration, in minutes
LongPings   == 105   \* cycles started in a run of SpecLong
ProbePings  == 2     \* cycles started in a run of SpecProbe
LivePings   == 2     \* cycles started in a run of SpecLive

(***************************************************************************)
(* Python values.                                                          *)
(***************************************************************************)
None      == << >>
Some(x)   == << x >>
Val(o)    == o[1]
truthy(o) == o # None                  \* a datetime object is always true

total_seconds(ticks)   == ticks * 60
timedelta_minutes(d)   == d

\* collections.deque(maxlen=...)
maxlen == 100

\* mutant of deque_append: a full deque gives up its newest entry
deque_append_EvictNewest(d, x) ==
    IF Len(d) = maxlen THEN Append(SubSeq(d, 1, Len(d) - 1), x) ELSE Append(d, x)

\* mutant of deque_append: the deque has no maxlen
deque_append_Unbounded(d, x) == Append(d, x)

deque_append(d, x) ==
    IF Len(d) = maxlen THEN Append(Tail(d), x) ELSE Append(d, x)


(***************************************************************************)
(* sum(), min(), max() of a deque; the value a / b of a true division is   *)
(* kept as the fraction [num, den].                                        *)
(***************************************************************************)
RECURSIVE sum(_)
sum(d) == IF d = << >> THEN 0 ELSE Head(d) + sum(Tail(d))

min(d) == CHOOSE x \in {d[i] : i \in DOMAIN d} : \A j \in DOMAIN d : x <= d[j]
max(d) == CHOOSE x \in {d[i] : i \in DOMAIN d} : \A j \in DOMAIN d : x >= d[j]

Frac(n, d) == [num |-> n, den |-> d]

\* mutant of rate: the division is made without looking at the total
rate_Unguarded(count, total) == Frac(count * 100, total)

\* (count / self.ping_count * 100) if self.ping_count > 0 else 0
rate(count, total) == IF total > 0 THEN Frac(count * 100, total) ELSE Frac(0, 1)

rtt_figures(d) ==
    IF d # << >>
    THEN Some([avg |-> Frac(sum(d), Len(d)), min |-> min(d), max |-> max(d)])
    ELSE None

\* failure_types[failure] = failure_types.get(failure, 0) + 1
failure_types(d) ==
    [f \in {d[i] : i \in DOMAIN d} |-> Cardinality({i \in DOMAIN d : d[i] = f})]

(***************************************************************************)
(* The outside world: what the resolver, the ping process and mmcli can    *)
(* answer.  A ping process exits 0 (with or without a "time=" figure in    *)
(* its output), exits non-zero (with or without text on stderr), outlives  *)
(* the watchdog (TimeoutExpired), or cannot be run at all (OSError, whose   *)
(* message is kept in the stderr field).  elapsed is in seconds.           *)
(***************************************************************************)
Lookups ==
    { [ok |-> TRUE,  v |-> "192.0.2.1"],
      [ok |-> FALSE, v |-> "Name or service not known"] }

Procs ==
    { [kind |-> "exit0",   time |-> Some(20), elapsed |-> 1, stderr |-> ""],
      [kind |-> "exit0",   time |-> None,     elapsed |-> 1, stderr |-> ""],
      [kind |-> "nonzero", time |-> None,     elapsed |-> 1, stderr |-> "Network is unreachable"],
      [kind |-> "nonzero", time |-> None,     elapsed |-> 1, stderr |-> ""],
      [kind |-> "TimeoutExpired", time |-> None, elapsed |-> 7, stderr |-> ""],
      [kind |-> "OSError", time |-> None,     elapsed |-> 0, stderr |-> "No such file: ping"] }

Modems ==
    { [returncode |-> 0, quality |-> Some("75%")],
      [returncode |-> 0, quality |-> None],
      [returncode |-> 1, quality |-> None] }

Intervals == {-1, 10}
Durations == 0..MaxDuration
Euids     == {0, 1000}

(***************************************************************************)
(* resolve_hostname, ping_host, get_signal_strength                        *)
(***************************************************************************)
resolve_hostname(lookup) == <<lookup.ok, lookup.v>>

Triple(s, r, e) == [success |-> s, rtt |-> r, error |-> e]

\* mutant of ping_host: a failed lookup does not stop the probe
ping_host_FallsThrough(is_ip, lookup, proc) ==
    CASE proc.kind = "TimeoutExpired" -> Triple(FALSE, None, Some("Ping timeout"))
      [] proc.kind = "OSError" -> Triple(FALSE, None, Some(proc.stderr))
      [] proc.kind = "exit0" ->
           IF proc.time # None
           THEN Triple(TRUE, proc.time, None)
           ELSE Triple(TRUE, Some(proc.elapsed * 1000), None)
      [] OTHER ->
           Triple(FALSE, None,
                  Some(IF proc.stderr # "" THEN proc.stderr ELSE "Ping failed"))

ping_host(is_ip, lookup, proc) ==
    LET dns == resolve_hostname(lookup)
    IN  IF ~is_ip /\ ~dns[1]
        THEN Triple(FALSE, None, Some("DNS resolution failed: " \o dns[2]))
        ELSE CASE proc.kind = "TimeoutExpired" -> Triple(FALSE, None, Some("Ping timeout"))
               [] proc.kind = "OSError" -> Triple(FALSE, None, Some(proc.stderr))
               [] proc.kind = "exit0" ->
                    IF proc.time # None
                    THEN Triple(TRUE, proc.time, None)
                    ELSE Triple(TRUE, Some(proc.elapsed * 1000), None)
               [] OTHER ->
                    Triple(FALSE, None,
                           Some(IF proc.stderr # "" THEN proc.stderr ELSE "Ping failed"))

\* whether ping_host gets as far as running the ping process (line 207)
ping_spawned(is_ip, lookup) == is_ip \/ resolve_hostname(lookup)[1]

PingResults(procs) == { ping_host(host_is_ip, l, p) : l \in Lookups, p \in procs }

\* the answers of a ping that either reports its round trip or times out
CoreProcs == { p \in Procs : p.time # None \/ p.kind = "TimeoutExpired" }

get_signal_strength(mm) ==
    IF mm.returncode = 0 /\ mm.quality # None THEN Val(mm.quality) ELSE "unknown"

(***************************************************************************)
(* Initial state: the process has parsed its command line; the fields are  *)
(* shown at the values __init__ gives them.                                *)
(***************************************************************************)
Started(euids, hosts, durations, intervals) ==
    /\ euid \in euids
    /\ host_is_ip \in hosts
    /\ duration \in durations
    /\ interval \in intervals
    /\ now = 0 /\ adjusted = 0
    /\ pc = "main" /\ exc = "none" /\ interrupted = FALSE /\ stop = "none"
    /\ exit_status = None /\ constructed = FALSE /\ diagnostics = None
    /\ start_time = None /\ end_time = None
    /\ ping_count = 0 /\ success_count = 0 /\ failure_count = 0
    /\ downtime_start = None /\ downtime_duration = 0
    /\ max_downtime = 0 /\ current_downtime = 0
    /\ recent_pings = << >> /\ recent_failures = << >>
    /\ result = None /\ downtime = None /\ signal = None
    /\ cycle_log = << >> /\ stats_log = << >> /\ final_log = << >>
    /\ history = << >> /\ episodes = << >> /\ opened = 0

(***************************************************************************)
(* main()                                                                  *)
(***************************************************************************)
MainNotRoot ==
    /\ pc = "main" /\ euid # 0
    /\ pc' = "exit" /\ exit_status' = Some(1)
    /\ UNCHANGED <<config, clock, exc, interrupted, stop, constructed, diagnostics,
                   times, counts, down, bufs, locals, logs, obs>>

\* mutant of MainRoot: the monitor is started whoever runs the script
MainRoot_Unchecked ==
    /\ pc = "main"
    /\ constructed' = TRUE
    /\ pc' = "monitor"
    /\ UNCHANGED <<config, clock, exc, interrupted, stop, exit_status, diagnostics,
                   times, counts, down, bufs, locals, logs, obs>>

MainRoot ==
    /\ pc = "main" /\ euid = 0
    /\ constructed' = TRUE
    /\ pc' = "monitor"
    /\ UNCHANGED <<config, clock, exc, interrupted, stop, exit_status, diagnostics,
                   times, counts, down, bufs, locals, logs, obs>>

(***************************************************************************)
(* monitor(): the statements before the try block                          *)
(***************************************************************************)
\* mutant of MonitorStart: no end time is computed from the duration
MonitorStart_NoEndTime ==
    /\ pc = "monitor"
    /\ start_time' = Some(now)
    /\ end_time' = end_time
    /\ pc' = "diag"
    /\ UNCHANGED <<config, clock, exc, interrupted, stop, exit_status, constructed,
                   diagnostics, counts, down, bufs, locals, logs, obs>>

MonitorStart ==
    /\ pc = "monitor"
    /\ start_time' = Some(now)
    /\ end_time' = IF duration # 0 THEN Some(now + timedelta_minutes(duration)) ELSE end_time
    /\ pc' = "diag"
    /\ UNCHANGED <<config, clock, exc, interrupted, stop, exit_status, constructed,
                   diagnostics, counts, down, bufs, locals, logs, obs>>

run_diagnostics ==
    /\ pc = "diag"
    /\ diagnostics' = Some(5)
    /\ pc' = "check"
    /\ UNCHANGED <<config, clock, exc, interrupted, stop, exit_status, constructed,
                   times, counts, down, bufs, locals, logs, obs>>

(***************************************************************************)
(* monitor(): the while loop                                               *)
(***************************************************************************)
\* mutant of duration_exceeded: the end time itself is not yet "exceeded"
duration_exceeded_Strict == truthy(end_time) /\ now > Val(end_time)

\* if self.end_time and datetime.now() >= self.end_time
duration_exceeded == truthy(end_time) /\ now >= Val(end_time)

DurationExceeded ==
    /\ pc = "check"
    /\ duration_exceeded
    /\ stop' = "duration"
    /\ pc' = "finally"
    /\ UNCHANGED <<config, clock, exc, interrupted, exit_status, constructed,
                   diagnostics, times, counts, down, bufs, locals, logs, obs>>

\* self.ping_count += 1; the probe is then in flight
BeginCycle(limit) ==
    /\ pc = "check"
    /\ ~duration_exceeded
    /\ ping_count < limit
    /\ ping_count' = ping_count + 1
    /\ cycle_log' = << >>
    /\ result' = None /\ downtime' = None /\ signal' = None
    /\ pc' = "ping"
    /\ UNCHANGED <<config, clock, exc, interrupted, stop, exit_status, constructed,
                   diagnostics, times, success_count, failure_count, down, bufs,
                   stats_log, final_log, obs>>

\* success, rtt, error = self.ping_host()
PingReturns(r) ==
    /\ pc = "ping"
    /\ result' = Some(r)
    /\ history' = Append(history, r)
    /\ pc' = "branch"
    /\ UNCHANGED <<config, clock, exc, interrupted, stop, exit_status, constructed,
                   diagnostics, times, counts, down, bufs, downtime, signal, logs,
                   episodes, opened>>

\* success, rtt, error = self.ping_host(), with what the call did on the way:
\* the lookup it made (if any) and the ping process it ran (if any)
PingHostCall(l, p) ==
    LET r == ping_host(host_is_ip, l, p)
        spawned == ping_spawned(host_is_ip, l)
    IN  /\ pc = "ping"
        /\ result' = Some(r)
        /\ history' = Append(history,
                             [ success |-> r.success, rtt |-> r.rtt, error |-> r.error,
                               lookup  |-> IF host_is_ip THEN None ELSE Some(l),
                               proc    |-> IF spawned THEN Some(p) ELSE None ])
        /\ pc' = "branch"
        /\ UNCHANGED <<config, clock, exc, interrupted, stop, exit_status, constructed,
                       diagnostics, times, counts, down, bufs, downtime, signal, logs,
                       episodes, opened>>

\* mutant of CountResult: a failed probe is not counted
CountResult_FailureUncounted ==
    /\ pc = "branch"
    /\ IF Val(result).success
       THEN /\ success_count' = success_count + 1
            /\ pc' = "s_append"
       ELSE /\ success_count' = success_count
            /\ pc' = "f_append"
    /\ UNCHANGED <<config, clock, exc, interrupted, stop, exit_status, constructed,
                   diagnostics, times, ping_count, failure_count, down, bufs, locals,
                   logs, obs>>

\* if success: self.success_count += 1 / else: self.failure_count += 1
CountResult ==
    /\ pc = "branch"
    /\ IF Val(result).success
       THEN /\ success_count' = success_count + 1
            /\ failure_count' = failure_count
            /\ pc' = "s_append"
       ELSE /\ failure_count' = failure_count + 1
            /\ success_count' = success_count
            /\ pc' = "f_append"
    /\ UNCHANGED <<config, clock, exc, interrupted, stop, exit_status, constructed,
                   diagnostics, times, ping_count, down, bufs, locals, logs, obs>>

\* self.recent_pings.append(rtt)
AppendPing ==
    /\ pc = "s_append"
    /\ recent_pings' = deque_append(recent_pings, Val(Val(result).rtt))
    /\ pc' = "s_test"
    /\ UNCHANGED <<config, clock, exc, interrupted, stop, exit_status, constructed,
                   diagnostics, times, counts, down, recent_failures, locals, logs, obs>>

\* if self.downtime_start: downtime = (datetime.now() - self.downtime_start).total_seconds()
TestRecovery ==
    /\ pc = "s_test"
    /\ IF truthy(downtime_start)
       THEN /\ downtime' = Some(total_seconds(now - Val(downtime_start)))
            /\ pc' = "s_accum"
       ELSE /\ downtime' = downtime
            /\ pc' = "s_log"
    /\ UNCHANGED <<config, clock, exc, interrupted, stop, exit_status, constructed,
                   diagnostics, times, counts, down, bufs, result, signal, logs, obs>>

\* mutant of AddDowntime: the episode's duration replaces the total
AddDowntime_Assign ==
    /\ pc = "s_accum"
    /\ downtime_duration' = Val(downtime)
    /\ pc' = "s_max"
    /\ UNCHANGED <<config, clock, exc, interrupted, stop, exit_status, constructed,
                   diagnostics, times, counts, downtime_start, max_downtime,
                   current_downtime, bufs, locals, logs, obs>>

\* self.downtime_duration += downtime
AddDowntime ==
    /\ pc = "s_accum"
    /\ downtime_duration' = downtime_duration + Val(downtime)
    /\ pc' = "s_max"
    /\ UNCHANGED <<config, clock, exc, interrupted, stop, exit_status, constructed,
                   diagnostics, times, counts, downtime_start, max_downtime,
                   current_downtime, bufs, locals, logs, obs>>

\* if downtime > self.max_downtime: self.max_downtime = downtime
UpdateMax ==
    /\ pc = "s_max"
    /\ max_downtime' = IF Val(downtime) > max_downtime THEN Val(downtime) ELSE max_downtime
    /\ pc' = "s_recovered"
    /\ UNCHANGED <<config, clock, exc, interrupted, stop, exit_status, constructed,
                   diagnostics, times, counts, downtime_start, downtime_duration,
                   current_downtime, bufs, locals, logs, obs>>

\* self.log("INFO", "Connection RECOVERED after ...")
LogRecovered ==
    /\ pc = "s_recovered"
    /\ cycle_log' = Append(cycle_log, "RECOVERED")
    /\ pc' = "s_clear"
    /\ UNCHANGED <<config, clock, exc, interrupted, stop, exit_status, constructed,
                   diagnostics, times, counts, down, bufs, locals, stats_log,
                   final_log, obs>>

\* mutant of ClearDowntimeStart: the episode is recorded but stays active
ClearDowntimeStart_Kept ==
    /\ pc = "s_clear"
    /\ episodes' = Append(episodes, Val(downtime))
    /\ pc' = "s_zero"
    /\ UNCHANGED <<config, clock, exc, interrupted, stop, exit_status, constructed,
                   diagnostics, times, counts, down, bufs, locals, logs, history, opened>>

\* self.downtime_start = None
ClearDowntimeStart ==
    /\ pc = "s_clear"
    /\ downtime_start' = None
    /\ episodes' = Append(episodes, Val(downtime))
    /\ pc' = "s_zero"
    /\ UNCHANGED <<config, clock, exc, interrupted, stop, exit_status, constructed,
                   diagnostics, times, counts, downtime_duration, max_downtime,
                   current_downtime, bufs, locals, logs, history, opened>>

\* self.current_downtime = 0
ZeroCurrentDowntime ==
    /\ pc = "s_zero"
    /\ current_downtime' = 0
    /\ pc' = "s_log"
    /\ UNCHANGED <<config, clock, exc, interrupted, stop, exit_status, constructed,
                   diagnostics, times, counts, downtime_start, downtime_duration,
                   max_downtime, bufs, locals, logs, obs>>

\* self.log("OK  ", "Ping #n: rtt ms")
LogOk ==
    /\ pc = "s_log"
    /\ cycle_log' = Append(cycle_log, "OK")
    /\ result' = None /\ downtime' = None /\ signal' = None
    /\ pc' = "stats"
    /\ UNCHANGED <<config, clock, exc, interrupted, stop, exit_status, constructed,
                   diagnostics, times, counts, down, bufs, stats_log,
                   final_log, obs>>

\* self.recent_failures.append(error)
AppendFailure ==
    /\ pc = "f_append"
    /\ recent_failures' = deque_append(recent_failures, Val(Val(result).error))
    /\ pc' = "f_signal"
    /\ UNCHANGED <<config, clock, exc, interrupted, stop, exit_status, constructed,
                   diagnostics, times, counts, down, recent_pings, locals, logs, obs>>

\* signal = self.get_signal_strength()
QuerySignal(mm) ==
    /\ pc = "f_signal"
    /\ signal' = Some(get_signal_strength(mm))
    /\ pc' = "f_track"
    /\ UNCHANGED <<config, clock, exc, interrupted, stop, exit_status, constructed,
                   diagnostics, times, counts, down, bufs, result, downtime, logs, obs>>

\* mutant of TrackDowntime: every failure restarts the episode
TrackDowntime_Restart ==
    /\ pc = "f_track"
    /\ downtime_start' = Some(now)
    /\ opened' = opened + 1
    /\ pc' = IF ~truthy(downtime_start) THEN "f_log_first" ELSE "f_log_still"
    /\ UNCHANGED <<config, clock, exc, interrupted, stop, exit_status, constructed,
                   diagnostics, times, counts, downtime_duration, max_downtime,
                   current_downtime, bufs, locals, logs, history, episodes>>

\* if not self.downtime_start: self.downtime_start = datetime.now()
\* else: self.current_downtime = (datetime.now() - self.downtime_start).total_seconds()
TrackDowntime ==
    /\ pc = "f_track"
    /\ IF ~truthy(downtime_start)
       THEN /\ downtime_start' = Some(now)
            /\ current_downtime' = current_downtime
            /\ opened' = opened + 1
            /\ pc' = "f_log_first"
       ELSE /\ current_downtime' = total_seconds(now - Val(downtime_start))
            /\ downtime_start' = downtime_start
            /\ opened' = opened
            /\ pc' = "f_log_still"
    /\ UNCHANGED <<config, clock, exc, interrupted, stop, exit_status, constructed,
                   diagnostics, times, counts, downtime_duration, max_downtime, bufs,
                   locals, logs, history, episodes>>

\* mutant of LogFirstFailure: the first failure of an episode is not logged
LogFirstFailure_Silent ==
    /\ pc = "f_log_first"
    /\ result' = None /\ downtime' = None /\ signal' = None
    /\ pc' = "stats"
    /\ UNCHANGED <<config, clock, exc, interrupted, stop, exit_status, constructed,
                   diagnostics, times, counts, down, bufs, logs, obs>>

\* self.log("FAIL", "Ping loss #n: error (Signal: s)")
LogFirstFailure ==
    /\ pc = "f_log_first"
    /\ cycle_log' = Append(cycle_log, "FAIL_LOSS")
    /\ result' = None /\ downtime' = None /\ signal' = None
    /\ pc' = "stats"
    /\ UNCHANGED <<config, clock, exc, interrupted, stop, exit_status, constructed,
                   diagnostics, times, counts, down, bufs, stats_log,
                   final_log, obs>>

\* self.log("FAIL", "Still down for ...")
LogStillDown ==
    /\ pc = "f_log_still"
    /\ cycle_log' = Append(cycle_log, "FAIL_STILL_DOWN")
    /\ result' = None /\ downtime' = None /\ signal' = None
    /\ pc' = "stats"
    /\ UNCHANGED <<config, clock, exc, interrupted, stop, exit_status, constructed,
                   diagnostics, times, counts, down, bufs, stats_log,
                   final_log, obs>>

\* print_stats()
stats_line ==
    [ success_count |-> success_count,
      ping_count    |-> ping_count,
      success_rate  |-> rate(success_count, ping_count),
      rtt           |-> rtt_figures(recent_pings),
      downtime      |-> IF truthy(downtime_start) THEN Some(current_downtime) ELSE None ]

\* mutant of PeriodicStats: the summary is printed in every cycle
PeriodicStats_EveryCycle ==
    /\ pc = "stats"
    /\ stats_log' = Append(stats_log, stats_line)
    /\ pc' = "sleep"
    /\ UNCHANGED <<config, clock, exc, interrupted, stop, exit_status, constructed,
                   diagnostics, times, counts, down, bufs, locals, cycle_log,
                   final_log, obs>>

\* if self.ping_count % 10 == 0: self.print_stats()
PeriodicStats ==
    /\ pc = "stats"
    /\ stats_log' = IF ping_count % 10 = 0 THEN Append(stats_log, stats_line) ELSE stats_log
    /\ pc' = "sleep"
    /\ UNCHANGED <<config, clock, exc, interrupted, stop, exit_status, constructed,
                   diagnostics, times, counts, down, bufs, locals, cycle_log,
                   final_log, obs>>

\* time.sleep(self.interval)
Sleep ==
    /\ pc = "sleep"
    /\ interval >= 0
    /\ pc' = "check"
    /\ UNCHANGED <<config, clock, exc, interrupted, stop, exit_status, constructed,
                   diagnostics, times, counts, down, bufs, locals, logs, obs>>

\* time.sleep() of a negative length raises ValueError
SleepRaises ==
    /\ pc = "sleep"
    /\ interval < 0
    /\ exc' = "ValueError"
    /\ stop' = "error"
    /\ pc' = "finally"
    /\ UNCHANGED <<config, clock, interrupted, exit_status, constructed, diagnostics,
                   times, counts, down, bufs, locals, logs, obs>>

(***************************************************************************)
(* KeyboardInterrupt.  The user interrupts the run once.  Inside the try   *)
(* block the exception reaches the except clause from wherever the loop    *)
(* is; before the try block it leaves monitor() and ends the process.      *)
(***************************************************************************)
TryPcs ==
    { "check", "ping", "branch",
      "s_append", "s_test", "s_accum", "s_max", "s_recovered", "s_clear", "s_zero", "s_log",
      "f_append", "f_signal", "f_track", "f_log_first", "f_log_still",
      "stats", "sleep" }

InterruptAt(pcs) ==
    /\ pc \in pcs
    /\ ~interrupted
    /\ interrupted' = TRUE
    /\ exc' = "KeyboardInterrupt"
    /\ stop' = "interrupt"
    /\ pc' = "except"
    /\ UNCHANGED <<config, clock, exit_status, constructed, diagnostics, times, counts,
                   down, bufs, locals, logs, obs>>

Interrupt == InterruptAt(TryPcs)

InterruptStartup ==
    /\ pc \in {"monitor", "diag"}
    /\ ~interrupted
    /\ interrupted' = TRUE
    /\ exc' = "KeyboardInterrupt"
    /\ exit_status' = Some(130)
    /\ pc' = "exit"
    /\ UNCHANGED <<config, clock, stop, constructed, diagnostics, times, counts, down,
                   bufs, locals, logs, obs>>

\* mutant of HandleInterrupt: the handler leaves without the finally clause
HandleInterrupt_NoFinally ==
    /\ pc = "except"
    /\ exc' = "none"
    /\ exit_status' = Some(0)
    /\ pc' = "exit"
    /\ UNCHANGED <<config, clock, interrupted, stop, constructed, diagnostics, times,
                   counts, down, bufs, locals, logs, obs>>

\* except KeyboardInterrupt: self.log("INFO", "Interrupted by user")
HandleInterrupt ==
    /\ pc = "except"
    /\ exc' = "none"
    /\ pc' = "finally"
    /\ UNCHANGED <<config, clock, interrupted, stop, exit_status, constructed,
                   diagnostics, times, counts, down, bufs, locals, logs, obs>>

\* mutant of final_report: the open episode is added to the total downtime
final_report_CountsOpenEpisode ==
    [ total_pings  |-> ping_count,
      successful   |-> success_count,
      failed       |-> failure_count,
      success_rate |-> rate(success_count, ping_count),
      loss_rate    |-> rate(failure_count, ping_count),
      elapsed      |-> total_seconds(now - Val(start_time)),
      rtt          |-> rtt_figures(recent_pings),
      downtime     |-> IF failure_count > 0
                       THEN Some([ total |-> downtime_duration + current_downtime,
                                   max   |-> max_downtime,
                                   losses |-> failure_count ])
                       ELSE None,
      breakdown    |-> IF failure_count > 0 /\ recent_failures # << >>
                       THEN Some(failure_types(recent_failures))
                       ELSE None ]

\* print_final_stats()
final_report ==
    [ total_pings  |-> ping_count,
      successful   |-> success_count,
      failed       |-> failure_count,
      success_rate |-> rate(success_count, ping_count),
      loss_rate    |-> rate(failure_count, ping_count),
      elapsed      |-> total_seconds(now - Val(start_time)),
      rtt          |-> rtt_figures(recent_pings),
      downtime     |-> IF failure_count > 0
                       THEN Some([ total |-> downtime_duration,
                                   max   |-> max_downtime,
                                   losses |-> failure_count ])
                       ELSE None,
      breakdown    |-> IF failure_count > 0 /\ recent_failures # << >>
                       THEN Some(failure_types(recent_failures))
                       ELSE None ]

\* finally: self.print_final_stats(); a pending exception then leaves monitor()
Finally ==
    /\ pc = "finally"
    /\ final_log' = Append(final_log, final_report)
    /\ exit_status' = IF exc = "none" THEN Some(0) ELSE Some(1)
    /\ pc' = "exit"
    /\ UNCHANGED <<config, clock, exc, interrupted, stop, constructed, diagnostics,
                   times, counts, down, bufs, locals, cycle_log, stats_log, obs>>

(***************************************************************************)
(* The wall clock.  Time passes while the program waits: in the            *)
(* diagnostics, in the ping and in the sleep.  (The mmcli query follows    *)
(* the ping with no clock reading between the two, so the time it takes    *)
(* is part of the time that passes at "ping".)                             *)
(***************************************************************************)
BlockingPcs == {"diag", "ping", "sleep"}

Tick ==
    /\ pc \in BlockingPcs
    /\ now < MaxTime
    /\ now' = now + 1
    /\ UNCHANGED <<config, adjusted, ctrl, times, counts, down, bufs, locals, logs, obs>>

ClockSetBack ==
    /\ pc \in BlockingPcs
    /\ adjusted < MaxAdjust
    /\ now > 0
    /\ now' = now - 1
    /\ adjusted' = adjusted + 1
    /\ UNCHANGED <<config, ctrl, times, counts, down, bufs, locals, logs, obs>>

(***************************************************************************)
(* Specification                                                           *)
(***************************************************************************)
Startup ==
    \/ MainNotRoot
    \/ MainRoot
    \/ MonitorStart
    \/ run_diagnostics

Accounting ==
    \/ CountResult
    \/ AppendPing
    \/ TestRecovery
    \/ AddDowntime
    \/ UpdateMax
    \/ LogRecovered
    \/ ClearDowntimeStart
    \/ ZeroCurrentDowntime
    \/ LogOk
    \/ AppendFailure
    \/ (\E mm \in Modems : QuerySignal(mm))
    \/ TrackDowntime
    \/ LogFirstFailure
    \/ LogStillDown
    \/ PeriodicStats

Ending ==
    \/ DurationExceeded
    \/ SleepRaises
    \/ HandleInterrupt
    \/ Finally

Next ==
    \/ Startup
    \/ BeginCycle(MaxPings)
    \/ (\E r \in PingResults(CoreProcs) : PingReturns(r))
    \/ Accounting
    \/ Sleep
    \/ Ending
    \/ Interrupt
    \/ InterruptStartup
    \/ Tick
    \/ ClockSetBack

\* the default host 8.8.8.8 is a literal address
Init == Started(Euids, {TRUE}, Durations, Intervals)

Spec == Init /\ [][Next]_vars

(***************************************************************************)
(* Long runs, for the rolling buffers and the periodic summary: a root     *)
(* process with no duration, a clock that stands still, and a link that    *)
(* changes its state at most once (a run of successes and a run of         *)
(* failures, in either order).  The ping of cycle n reports a round trip   *)
(* of n ms when it succeeds; when it fails the reason rotates among the    *)
(* three a failed ping can give.  The user may interrupt the run during a  *)
(* sleep.                                                                  *)
(***************************************************************************)
LongProcs(n) ==
    { [kind |-> "exit0", time |-> Some(n), elapsed |-> 1, stderr |-> ""],
      CASE n % 3 = 0 -> [kind |-> "nonzero", time |-> None, elapsed |-> 1,
                         stderr |-> "Network is unreachable"]
        [] n % 3 = 1 -> [kind |-> "nonzero", time |-> None, elapsed |-> 1, stderr |-> ""]
        [] OTHER     -> [kind |-> "TimeoutExpired", time |-> None, elapsed |-> 7,
                         stderr |-> ""] }

\* r may follow the outcomes so far: an outcome that has ended does not return
\* (while the first and the last outcome agree, nothing has changed yet)
OneChange(r) ==
    \/ history = << >>
    \/ r.success = history[Len(history)].success
    \/ history[1].success = history[Len(history)].success

ScriptedResults == { r \in PingResults(LongProcs(ping_count)) : OneChange(r) }

InitLong == Started({0}, {TRUE}, {0}, {10})

NextLong ==
    \/ MainRoot
    \/ MonitorStart
    \/ run_diagnostics
    \/ BeginCycle(LongPings)
    \/ (\E r \in ScriptedResults : PingReturns(r))
    \/ Accounting
    \/ Sleep
    \/ InterruptAt({"sleep"})
    \/ HandleInterrupt
    \/ Finally

SpecLong == InitLong /\ [][NextLong]_vars

(***************************************************************************)
(* Short runs with everything a probe can meet: the host given as an       *)
(* address or as a name, every answer of the resolver, of the ping process *)
(* and of mmcli, either interval, no duration and a clock that stands      *)
(* still.                                                                  *)
(***************************************************************************)
InitProbe == Started({0}, BOOLEAN, {0}, Intervals)

NextProbe ==
    \/ MainRoot
    \/ MonitorStart
    \/ run_diagnostics
    \/ BeginCycle(ProbePings)
    \/ (\E l \in Lookups, p \in Procs : PingHostCall(l, p))
    \/ Accounting
    \/ Sleep
    \/ SleepRaises
    \/ Interrupt
    \/ HandleInterrupt
    \/ Finally

SpecProbe == InitProbe /\ [][NextProbe]_vars

(***************************************************************************)
(* A run that is left to itself: the interpreter goes on to its next       *)
(* statement, and every blocking call comes back (the ping after at most   *)
(* timeout + 2 seconds, mmcli after 5, the sleep after the interval).      *)
(* Nothing is assumed of the clock or of the user.                         *)
(***************************************************************************)
InitLive == Started({0}, {TRUE}, {-1} \cup Durations, Intervals)

ProgramStep ==
    \/ MainRoot
    \/ MonitorStart
    \/ run_diagnostics
    \/ DurationExceeded
    \/ BeginCycle(LivePings)
    \/ (\E r \in PingResults(CoreProcs) : PingReturns(r))
    \/ Accounting
    \/ Sleep
    \/ SleepRaises
    \/ HandleInterrupt
    \/ Finally

NextLive ==
    \/ ProgramStep
    \/ Interrupt
    \/ Tick
    \/ ClockSetBack

SpecLive == InitLive /\ [][NextLive]_vars /\ WF_vars(ProgramStep)

(***************************************************************************)
(* Properties                                                              *)
(***************************************************************************)
\* the last cycle started has run to its end: its outcome is counted and logged
CycleComplete ==
    \/ pc \in {"stats", "sleep"}
    \/ pc = "check" /\ ping_count > 0
    \/ stop \in {"duration", "error"} /\ ping_count > 0

failed(i)    == ~history[i].success
succeeded(i) == history[i].success

\* the cycles at which a run of failures begins, and those at which one ends
RunStarts == { i \in DOMAIN history : failed(i) /\ (i = 1 \/ succeeded(i - 1)) }
RunEnds   == { i \in DOMAIN history : succeeded(i) /\ i > 1 /\ failed(i - 1) }

\* C1: after every cycle of the monitoring loop, whatever the probe results
\* were, success_count + failure_count equals ping_count.
C1_CountsAddUp ==
    (CycleComplete \/ ping_count = 0) => success_count + failure_count = ping_count

C1_Witness ==
    /\ pc = "sleep" /\ ping_count = 3
    /\ success_count = 1 /\ failure_count = 2

\* C2: after a cycle a downtime episode is active if and only if that cycle's
\* probe failed; every maximal run of failed cycles opens exactly one episode,
\* at its first failure, and the first success after it closes that episode.
C2_EpisodeIsFailureRun ==
    CycleComplete =>
        /\ truthy(downtime_start) <=> failed(Len(history))
        /\ opened = Cardinality(RunStarts)
        /\ Len(episodes) = Cardinality(RunEnds)

\* the results S, S, F, F, S: one closed episode, two failures, three successes
C2_Witness ==
    /\ pc = "sleep"
    /\ Len(history) = 5
    /\ succeeded(1) /\ succeeded(2) /\ failed(3) /\ failed(4) /\ succeeded(5)
    /\ Len(episodes) = 1 /\ opened = 1 /\ ~truthy(downtime_start)
    /\ failure_count = 2 /\ success_count = 3

\* C3: at most one episode is active at any time; the start time is set only
\* by a failure while no episode is active and cleared only by a success while
\* one is active; a failure while one is active leaves the start time alone.
C3_StartTimeSteps ==
    /\ (downtime_start' # downtime_start) =>
          \/ /\ pc = "f_track" /\ ~Val(result).success
             /\ ~truthy(downtime_start) /\ downtime_start' = Some(now)
          \/ /\ pc = "s_clear" /\ Val(result).success
             /\ truthy(downtime_start) /\ downtime_start' = None
    /\ (pc = "f_track" /\ truthy(downtime_start) /\ pc' = "f_log_still") =>
          /\ downtime_start' = downtime_start
          /\ opened' = opened
    /\ opened' - Len(episodes') = (IF truthy(downtime_start') THEN 1 ELSE 0)

C3_OneEpisode == [][C3_StartTimeSteps]_vars

\* a failure has been accounted while the episode was already active
C3_Witness ==
    /\ pc = "f_log_still"
    /\ truthy(downtime_start) /\ Val(downtime_start) < now
    /\ opened = 1 /\ failure_count = 2

\* C4: after any sequence of cycles downtime_duration is the sum of the
\* durations of the closed episodes; an open episode adds nothing to it.
C4_CumulativeIsSum ==
    CycleComplete => downtime_duration = sum(episodes)

\* one episode closed, a second one open and already lasting
C4_Witness ==
    /\ pc = "sleep"
    /\ Len(episodes) = 1 /\ episodes[1] > 0
    /\ truthy(downtime_start) /\ current_downtime > 0
    /\ downtime_duration = episodes[1]

\* C5: after any sequence of cycles max_downtime is the largest duration of a
\* closed episode, and 0 when no episode has been closed.
C5_MaxIsLargestEpisode ==
    CycleComplete =>
        max_downtime = (IF episodes = << >> THEN 0 ELSE max(episodes))

\* the last n entries of a sequence
LastN(n, q) == IF Len(q) <= n THEN q ELSE SubSeq(q, Len(q) - n + 1, Len(q))

\* the round-trip times of the successful probes and the reasons of the failed
\* ones, in the order the probes were made
Rtts ==
    LET ok == SelectSeq(history, LAMBDA r : r.success)
    IN  [i \in 1..Len(ok) |-> Val(ok[i].rtt)]

Errors ==
    LET ko == SelectSeq(history, LAMBDA r : ~r.success)
    IN  [i \in 1..Len(ko) |-> Val(ko[i].error)]

\* C6: neither rolling buffer ever holds more than 100 entries; once a buffer
\* is full an append drops exactly its oldest entry and keeps the others in
\* arrival order, so each buffer holds the latest (at most 100) values given
\* to it, oldest first.
C6_RollingBuffers ==
    /\ Len(recent_pings) <= maxlen
    /\ Len(recent_failures) <= maxlen
    /\ CycleComplete =>
          /\ recent_pings = LastN(maxlen, Rtts)
          /\ recent_failures = LastN(maxlen, Errors)

\* 101 failures, then successes: the oldest failure reason has been dropped
C6_Witness ==
    /\ pc = "sleep"
    /\ failure_count = maxlen + 1 /\ success_count = 4
    /\ Len(recent_failures) = maxlen /\ Len(recent_pings) = 4
    /\ recent_failures[1] = Errors[2]
    /\ recent_failures[maxlen] = Errors[maxlen + 1]

\* the outcome lines a complete cycle prints, by the transition it took
OutcomeLines(i) ==
    LET wasDown == i > 1 /\ failed(i - 1)
    IN  CASE succeeded(i) /\ ~wasDown -> << "OK" >>
          [] succeeded(i) /\ wasDown  -> << "RECOVERED", "OK" >>
          [] failed(i) /\ ~wasDown    -> << "FAIL_LOSS" >>
          [] failed(i) /\ wasDown     -> << "FAIL_STILL_DOWN" >>

\* C7 as stated: every cycle increments ping_count exactly once and prints
\* exactly one log line describing its outcome.
C7_OneLinePerCycle ==
    CycleComplete => ping_count = Len(history) /\ Len(cycle_log) = 1

\* C7 amended: every cycle that runs to its end increments ping_count exactly
\* once; it prints exactly one outcome line on Up+Success, Up+Failure and
\* Down+Failure, and two on Down+Success: the recovery line, then the success
\* line.
C7_LinesPerTransition ==
    CycleComplete =>
        /\ ping_count = Len(history)
        /\ cycle_log = OutcomeLines(Len(history))

C7_Witness ==
    /\ pc = "sleep"
    /\ Len(history) = 3 /\ failed(1) /\ failed(2) /\ succeeded(3)
    /\ cycle_log = << "RECOVERED", "OK" >>

\* the outcome of the last cycle started is counted and its line is printed
CycleAccounted ==
    /\ success_count + failure_count = ping_count
    /\ ping_count = Len(history)
    /\ ping_count > 0 =>
          /\ cycle_log # << >>
          /\ cycle_log[Len(cycle_log)] \in {"OK", "FAIL_LOSS", "FAIL_STILL_DOWN"}

\* C8: an interrupt takes effect only between cycles: when the loop stops on
\* an interrupt, the cycle that was in progress has completed its probe, its
\* counter updates and its log line.
C8_InterruptBetweenCycles ==
    stop = "interrupt" => CycleAccounted

\* C9: when the loop has ended, by interrupt, by duration expiry or by an
\* error, the final report has been printed, and it is never printed twice.
C9_FinalReportOnce ==
    /\ Len(final_log) <= 1
    /\ (pc = "exit" /\ stop # "none") => Len(final_log) = 1
    /\ final_log # << >> => stop # "none"

\* the interrupt came during the sleep that follows a complete cycle
C9_Witness ==
    /\ pc = "exit" /\ stop = "interrupt"
    /\ Len(final_log) = 1
    /\ ping_count = 2 /\ CycleAccounted
    /\ final_log[1].total_pings = 2

\* C10: with a duration configured no cycle starts (ping_count is not
\* incremented and no probe is issued) once the clock read at the top of the
\* loop is at or after the end time, and the final report is still printed
\* after the loop has stopped.
C10_CheckSteps ==
    /\ (ping_count' # ping_count \/ (pc' = "ping" /\ pc # "ping")) =>
          ~(end_time # None /\ now >= Val(end_time))
    /\ (pc = "check" /\ end_time # None /\ now >= Val(end_time) /\ pc' # pc) =>
          pc' \in {"finally", "except"}
    /\ (pc' = "exit" /\ stop' = "duration") => Len(final_log') = 1

C10_EndTimeBeforeProbe == [][C10_CheckSteps]_vars

\* the duration ran out in mid-run: cycles were made, then the loop stopped
C10_Witness ==
    /\ pc = "exit" /\ stop = "duration"
    /\ ping_count = 2 /\ now = Val(end_time)
    /\ Len(final_log) = 1

\* every failed probe so far is counted and its reason is in the buffer
FailuresRecorded ==
    /\ failure_count = Len(Errors)
    /\ success_count = Len(Rtts)
    /\ recent_failures = LastN(maxlen, Errors)

\* C11: no error of a cycle ends the loop: a failed lookup, a failed ping, a
\* ping that outlives the watchdog, an unexpected error in the probe or an
\* unavailable signal figure leave the cycle counted as a failure with its
\* reason recorded, and the loop goes on; only the interrupt and the expiry
\* of the duration stop it.
C11_OnlyInterruptOrDurationStop ==
    /\ CycleComplete => FailuresRecorded
    /\ stop \in {"none", "interrupt", "duration"}
    /\ pc \in {"finally", "exit"} => stop \in {"interrupt", "duration"}

\* C11 without its last clause: the errors of a probe are absorbed
C11_ProbeErrorsAbsorbed ==
    /\ CycleComplete => FailuresRecorded
    /\ stop = "error" => (interval < 0 /\ exc = "ValueError")

\* C12: ping_count, success_count, failure_count, downtime_duration and
\* max_downtime never decrease, whatever the probe results and the clock
\* readings are; in particular the duration recorded for a closed episode
\* (recovery time minus start time) is never negative.
C12_Steps ==
    /\ ping_count' >= ping_count
    /\ success_count' >= success_count
    /\ failure_count' >= failure_count
    /\ downtime_duration' >= downtime_duration
    /\ max_downtime' >= max_downtime
    /\ \A i \in DOMAIN episodes' : episodes'[i] >= 0
    /\ downtime' # None => Val(downtime') >= 0

C12_NeverDecrease == [][C12_Steps]_vars

\* the run has ended with an episode open: the last probe made had failed
EndedWhileDown ==
    /\ final_log # << >>
    /\ truthy(downtime_start)
    /\ history # << >> /\ failed(Len(history))

\* C13 as stated: when the run ends while an episode is open, the end-of-run
\* output carries a current-downtime figure showing that episode's elapsed
\* time.
C13_FinalReportShowsCurrent ==
    EndedWhileDown =>
        /\ "current_downtime" \in DOMAIN final_log[1]
        /\ final_log[1]["current_downtime"] = current_downtime

\* C13 amended: when the run ends while an episode is open, that episode's
\* elapsed time is left out of the total downtime of the final report (the
\* sum of the closed episodes) and the final report has no current-downtime
\* figure at all; the elapsed time is only reported during the run, by the
\* "Still down" line of a continuing failure and by the periodic summary.
C13_OpenEpisodeLeftOut ==
    EndedWhileDown =>
        /\ final_log[1].downtime = Some([ total  |-> sum(episodes),
                                          max    |-> max_downtime,
                                          losses |-> failure_count ])
        /\ DOMAIN final_log[1] =
              { "total_pings", "successful", "failed", "success_rate", "loss_rate",
                "elapsed", "rtt", "downtime", "breakdown" }
        /\ stats_line.downtime = Some(current_downtime)

\* two failures a minute apart, then the interrupt: 60 s of open downtime
C13_Witness ==
    /\ pc = "exit" /\ EndedWhileDown
    /\ failure_count = 2 /\ success_count = 0
    /\ current_downtime = 60
    /\ Val(final_log[1].downtime).total = 0
    /\ cycle_log = << "FAIL_STILL_DOWN" >>

\* C14: a process that is not root exits with a non-zero status before any
\* monitoring: no monitor object is built, no diagnostics run, no probe is
\* made, no field changes and no final report is printed.
C14_NotRootExitsAtOnce ==
    euid # 0 =>
        /\ pc \in {"main", "exit"}
        /\ pc = "exit" => (exit_status # None /\ Val(exit_status) # 0)
        /\ ~constructed /\ diagnostics = None
        /\ start_time = None /\ end_time = None
        /\ ping_count = 0 /\ success_count = 0 /\ failure_count = 0
        /\ history = << >> /\ result = None
        /\ downtime_start = None /\ downtime_duration = 0
        /\ max_downtime = 0 /\ current_downtime = 0
        /\ recent_pings = << >> /\ recent_failures = << >>
        /\ cycle_log = << >> /\ stats_log = << >> /\ final_log = << >>

C14_Witness ==
    /\ euid # 0 /\ pc = "exit"
    /\ exit_status = Some(1)
    /\ ~constructed /\ final_log = << >>

\* the fraction f is the percentage of count in total, and 0 when total is 0
IsPercentage(f, count, total) ==
    /\ f.den # 0
    /\ total = 0 => f.num = 0
    /\ total > 0 => f.num * total = count * 100 * f.den

\* C15: the success rate and the loss rate are reported as 0 when no probe
\* has been made and as count / ping_count * 100 otherwise; nothing printed
\* is the result of a division by zero.
C15_RatesDefined ==
    /\ \A i \in DOMAIN final_log :
          LET r == final_log[i]
          IN  /\ IsPercentage(r.success_rate, r.successful, r.total_pings)
              /\ IsPercentage(r.loss_rate, r.failed, r.total_pings)
              /\ r.total_pings = ping_count
              /\ r.successful = success_count /\ r.failed = failure_count
              /\ r.rtt # None => Val(r.rtt).avg.den # 0
    /\ \A i \in DOMAIN stats_log :
          LET r == stats_log[i]
          IN  /\ IsPercentage(r.success_rate, r.success_count, r.ping_count)
              /\ r.rtt # None => Val(r.rtt).avg.den # 0

\* the duration ran out before the first probe: a final report of zero pings
C15_Witness ==
    /\ pc = "exit" /\ stop = "duration"
    /\ ping_count = 0
    /\ Len(final_log) = 1
    /\ final_log[1].total_pings = 0
    /\ final_log[1].success_rate.num = 0 /\ final_log[1].loss_rate.num = 0

\* the cycles whose hostname lookup failed
DnsFailures ==
    { i \in DOMAIN history : history[i].lookup # None /\ ~Val(history[i].lookup).ok }

\* C16: when the host is not a literal address and its lookup fails, the probe
\* returns a failure whose reason is "DNS resolution failed: <detail>" and no
\* ping is run in that cycle; the cycle is counted as a failed probe.
C16_DnsFailureIsAProbeFailure ==
    /\ \A i \in DnsFailures :
          /\ ~host_is_ip
          /\ ~history[i].success
          /\ history[i].rtt = None
          /\ history[i].error =
                Some("DNS resolution failed: " \o Val(history[i].lookup).v)
          /\ history[i].proc = None
    /\ \A i \in DOMAIN history :
          history[i].proc = None => i \in DnsFailures
    /\ CycleComplete =>
          /\ failure_count = Len(Errors)
          /\ failure_count >= Cardinality(DnsFailures)
          /\ ping_count = Len(history)

\* two cycles whose lookup failed, both counted and both reasons kept
C16_Witness ==
    /\ pc = "exit" /\ ~host_is_ip
    /\ DnsFailures = {1, 2}
    /\ ping_count = 2 /\ failure_count = 2 /\ success_count = 0
    /\ recent_failures = << "DNS resolution failed: Name or service not known",
                            "DNS resolution failed: Name or service not known" >>
    /\ cycle_log = << "FAIL_STILL_DOWN" >>
    /\ final_log[1].failed = 2

\* C17: a periodic summary is printed at the end of exactly the cycles whose
\* ping_count is a multiple of 10, with that cycle's outcome already counted,
\* and it shows a current-downtime figure exactly when an episode is open.
C17_SummaryEveryTenth ==
    /\ pc \in {"check", "sleep"} => Len(stats_log) = ping_count \div 10
    /\ pc = "stats" => Len(stats_log) = (ping_count - 1) \div 10
    /\ \A k \in DOMAIN stats_log :
          LET r == stats_log[k]
          IN  /\ r.ping_count = 10 * k
              /\ r.success_count = Cardinality({ i \in 1..(10 * k) : succeeded(i) })
              /\ (r.downtime # None) = failed(10 * k)
    /\ pc = "sleep" /\ ping_count % 10 = 0 /\ ping_count > 0 =>
          /\ stats_log[Len(stats_log)].ping_count = ping_count
          /\ stats_log[Len(stats_log)].success_count = success_count
          /\ (stats_log[Len(stats_log)].downtime # None) = truthy(downtime_start)

\* twenty cycles, the link lost between the tenth and the twentieth: two
\* summaries, the second one with a downtime figure
C17_Witness ==
    /\ pc = "sleep" /\ ping_count = 20
    /\ Len(stats_log) = 2
    /\ stats_log[1].ping_count = 10 /\ stats_log[1].downtime = None
    /\ stats_log[2].ping_count = 20 /\ stats_log[2].downtime # None
    /\ stats_log[2].success_count = success_count /\ success_count = 15
    /\ truthy(downtime_start)

\* from some moment on the clock reads no less than start_time + duration
ClockAdvances ==
    <>[](truthy(start_time) /\ now >= Val(start_time) + timedelta_minutes(duration))

\* C18: with a non-zero duration, a clock that advances and probes that
\* return, the loop eventually stops without the user and the final report is
\* printed; with duration 0 no end time is ever set and the duration check
\* never stops the loop.
C18_DurationEndsTheRun ==
    /\ [](duration = 0 => end_time = None /\ stop # "duration")
    /\ [](duration # 0 /\ truthy(start_time) =>
             end_time = Some(Val(start_time) + timedelta_minutes(duration)))
    /\ (duration # 0 /\ ClockAdvances) =>
          <>(/\ pc = "exit" /\ Len(final_log) = 1
             /\ (interrupted \/ stop \in {"duration", "error"})
             /\ (stop = "error" => interval < 0))

\* a run of one minute: two probes, then the duration check stops the loop
C18_Witness ==
    /\ pc = "exit" /\ stop = "duration" /\ ~interrupted
    /\ duration = 1 /\ end_time = Some(1) /\ now >= 1
    /\ ping_count = LivePings
    /\ Len(final_log) = 1 /\ final_log[1].total_pings = ping_count

\* C19: however the loop ends, an interrupt during a probe or between two
\* counter updates included, the successes and the failures of the final
\* report add up to its total of pings.
C19_ReportAddsUp ==
    \A i \in DOMAIN final_log :
        final_log[i].successful + final_log[i].failed = final_log[i].total_pings

Least(a, b) == IF a <= b THEN a ELSE b

\* the sum of the occurrence counts of a failure breakdown
RECURSIVE SumOver(_, _)
SumOver(f, S) ==
    IF S = {} THEN 0
    ELSE LET x == CHOOSE y \in S : TRUE
         IN  f[x] + SumOver(f, S \ {x})

BreakdownTotal(r) == SumOver(Val(r.breakdown), DOMAIN Val(r.breakdown))

\* C20: after any number of completed cycles recent_pings holds
\* min(success_count, 100) entries and recent_failures min(failure_count, 100),
\* while the counters count every probe; so the counts of the final failure
\* breakdown sum to min(failure_count, 100), less than the failure count
\* reported once there have been more than 100 failures.
C20_BuffersCapCountersDoNot ==
    /\ CycleComplete =>
          /\ Len(recent_pings) = Least(success_count, maxlen)
          /\ Len(recent_failures) = Least(failure_count, maxlen)
          /\ success_count = Len(Rtts)
          /\ failure_count = Len(Errors)
          /\ success_count + failure_count = Len(history)
    /\ \A i \in DOMAIN final_log :
          LET r == final_log[i]
          IN  /\ r.failed = failure_count /\ r.successful = success_count
              /\ (r.breakdown # None) = (r.failed > 0)
              /\ r.breakdown # None =>
                    /\ BreakdownTotal(r) = Least(r.failed, maxlen)
                    /\ r.failed > maxlen => BreakdownTotal(r) < r.failed

\* 102 failures and 3 successes: the breakdown accounts for 100 failures
C20_Witness ==
    /\ pc = "exit"
    /\ Len(final_log) = 1
    /\ final_log[1].failed = maxlen + 2 /\ final_log[1].successful = 3
    /\ BreakdownTotal(final_log[1]) = maxlen
    /\ Len(recent_failures) = maxlen /\ Len(recent_pings) = 3

====
